---- MODULE Spec2Model ----
(***************************************************************************)
(* Model of app/main.py: the three funnel-timing stage functions           *)
(* (analyze_module1/2/3), their helpers, and the POST /run handler.        *)
(*                                                                         *)
(* Column names and bucket labels are Chinese string literals in the       *)
(* source; they are written here in ASCII:                                 *)
(*   reg_time = 注册时间, exp_time = 体验金领取时间, first_time = 首充时间,      *)
(*   second_time = 二充时间, plus_time = 升级PLUS时间.                        *)
(* Timestamps are integers counting seconds; a delta in days is the        *)
(* difference in seconds compared against multiples of SecondsPerDay.      *)
(***************************************************************************)
EXTENDS Integers, Sequences, FiniteSets, TLC

VARIABLES
    df,        \* the table object handed to the stage function (SpecStage)
    module,    \* the stage selected for df (SpecStage)
    calls,     \* outcomes of the successive stage calls on df (SpecStage)
    df0,       \* the table as it was before the first call (SpecStage)
    input,     \* what the table is drawn from: cell kinds and row limit (SpecStage)
    bx,        \* bucket function input: [stage, x] (SpecBucket)
    blabel,    \* bucket function output, "" before the call (SpecBucket)
    reqs,      \* per request: position in run, selector, report and bar payload (Spec)
    figs,      \* pyplot's registry of open figures, last one is current (Spec)
    rcParams,  \* matplotlib's process-wide configuration (Spec)
    running,   \* the request whose coroutine holds the event loop, 0 if none
    response,  \* the response the last step sent, with what it answers (Spec)
    fontFile   \* whether the font file at FONT_PATH can be loaded

vars == <<df, module, calls, df0, input, bx, blabel, reqs, figs, rcParams, running, response, fontFile>>

---------------------------------------------------------------------------
(* Column names *)
COL_REG == "reg_time"
COL_EXP == "exp_time"
COL_FIRST == "first_time"
COL_SECOND == "second_time"
COL_PLUS == "plus_time"

Cols == {COL_REG, COL_EXP, COL_FIRST, COL_SECOND, COL_PLUS}

SecondsPerDay == 86400

(* Bounds of the model *)
MaxRows == 2
MaxTimedRows == 4
MaxRequests == 2
MaxReqRows == 1
MaxBucketDay == 30

HalfDay == SecondsPerDay \div 2

---------------------------------------------------------------------------
(* Cells.  A raw cell read from the spreadsheet is empty (nan), a text    *)
(* that does not parse as a timestamp (bad), a text that does (str), or a *)
(* timestamp (ts).  A coerced column holds only ts and NaT cells.          *)
NaN == [k |-> "nan", t |-> 0]
Bad == [k |-> "bad", t |-> 0]
NaT == [k |-> "NaT", t |-> 0]
Str(t) == [k |-> "str", t |-> t]
Ts(t) == [k |-> "ts", t |-> t]

(* Variant: errors="ignore", an unparseable text is left as it is *)
to_datetime_ignore(c) ==
    CASE c.k = "ts" -> c
      [] c.k = "str" -> Ts(c.t)
      [] c.k = "bad" -> c
      [] OTHER -> NaT

(* Variant: only text is parsed, a value that is already a timestamp is    *)
(* not recognised                                                          *)
to_datetime_reparse(c) ==
    CASE c.k = "str" -> Ts(c.t)
      [] OTHER -> NaT

(* pd.to_datetime(value, errors="coerce") on one cell *)
to_datetime(c) ==
    CASE c.k = "ts" -> c
      [] c.k = "str" -> Ts(c.t)
      [] OTHER -> NaT

(* Series.notna() / Series.isna() on one cell *)
notna(c) == c.k \notin {"nan", "NaT"}
isna(c) == ~notna(c)

RECURSIVE SumSeq(_)
SumSeq(s) == IF s = <<>> THEN 0 ELSE Head(s) + SumSeq(Tail(s))

Range(s) == {s[i] : i \in DOMAIN s}

(* Variant: truncation instead of rounding *)
Round_trunc(num, den, scale) == (num * scale) \div den

(* round(num/den, digits) with scale = 10^digits, as an integer count of   *)
(* 1/scale: Python's round() rounds an exact tie to the even neighbour.    *)
Round(num, den, scale) ==
    LET n == num * scale
        q == n \div den
        r == n % den
    IN IF 2 * r < den THEN q
       ELSE IF 2 * r > den THEN q + 1
       ELSE IF q % 2 = 0 THEN q ELSE q + 1

---------------------------------------------------------------------------
(* _safe_to_datetime: coerce, in place, each listed column the table has *)
RECURSIVE _safe_to_datetime(_, _)
_safe_to_datetime(d, cols) ==
    IF cols = <<>> THEN d
    ELSE LET c == Head(cols)
             d1 == IF c \in d.columns
                   THEN [d EXCEPT !.rows =
                            [i \in DOMAIN d.rows |->
                                [d.rows[i] EXCEPT ![c] = to_datetime(@)]]]
                   ELSE d
         IN _safe_to_datetime(d1, Tail(cols))

(* Variant: the whole required list is reported when any of it is missing *)
_missing_cols_all(d, cols) ==
    IF \E i \in DOMAIN cols : cols[i] \notin d.columns THEN cols ELSE <<>>

(* _missing_cols: the listed columns the table lacks, in list order *)
RECURSIVE _missing_cols(_, _)
_missing_cols(d, cols) ==
    IF cols = <<>> THEN <<>>
    ELSE (IF Head(cols) \notin d.columns THEN <<Head(cols)>> ELSE <<>>)
         \o _missing_cols(d, Tail(cols))

(* A delta in days: nan, or v seconds *)
NaNDelta == [nan |-> TRUE, v |-> 0]
Delta(v) == [nan |-> FALSE, v |-> v]

(* (row[succ] - row[pred]).dt.total_seconds(): NaT if either side is NaT *)
delta_days(row, succ, pred) ==
    IF isna(row[succ]) \/ isna(row[pred]) THEN NaNDelta
    ELSE Delta(row[succ].t - row[pred].t)

(* value_counts().to_dict(): label -> number of occurrences, present labels only *)
value_counts(labels) ==
    [l \in Range(labels) |-> Cardinality({i \in DOMAIN labels : labels[i] = l})]

(* reindex(order, fill_value=0): exactly the labels of order *)
reindex(d, order) ==
    [l \in Range(order) |-> IF l \in DOMAIN d THEN d[l] ELSE 0]

(* dist.values: the counts in the order of the fixed list *)
Values(dist, order) == [i \in DOMAIN order |-> dist[order[i]]]

(* dist.sum() *)
dist_sum(dist, order) == SumSeq(Values(dist, order))

(* (dist / n), each rounded to 4 decimals, in ten-thousandths *)
ratio_of(dist, n) == [l \in DOMAIN dist |-> Round(dist[l], n, 10000)]

(* An error message; "缺少列：a, b" carries the joined names *)
ErrMsg(kind) == [msg |-> kind, names |-> <<>>]
MissingMsg(miss) == [msg |-> "missing_cols", names |-> miss]

---------------------------------------------------------------------------
(* Stage 1 bucket labels, in the source:                                   *)
(*   no_trial_credit = 未领取体验金(无法计算Δ), deposit_before_credit =       *)
(*   先首充再领取体验金, same_day = 同时领取体验金并首充人群, 1-3d = 1-3天, ...  *)
bucket1(x) ==
    IF x.nan THEN "no_trial_credit"
    ELSE IF x.v < 0 THEN "deposit_before_credit"
    ELSE IF x.v < 1 * SecondsPerDay THEN "same_day"
    ELSE IF x.v <= 3 * SecondsPerDay THEN "1-3d"
    ELSE IF x.v <= 6 * SecondsPerDay THEN "4-6d"
    ELSE IF x.v <= 10 * SecondsPerDay THEN "7-10d"
    ELSE "over_10d"

order1 == <<"no_trial_credit", "deposit_before_credit", "same_day",
            "1-3d", "4-6d", "7-10d", "over_10d">>

(* Stage 2: unknown = 未知, time_reversed = 时间倒流(二充早于首充),            *)
(* no_second_yet = 尚未完成二充                                              *)
bucket2(x) ==
    IF x.nan THEN "unknown"
    ELSE IF x.v < 0 THEN "time_reversed"
    ELSE IF x.v <= 7 * SecondsPerDay THEN "1-7d"
    ELSE IF x.v <= 14 * SecondsPerDay THEN "8-14d"
    ELSE IF x.v <= 20 * SecondsPerDay THEN "15-20d"
    ELSE "over_20d"

(* Variant: the time-reversed label is left out of the fixed list *)
order2_short == <<"1-7d", "8-14d", "15-20d", "over_20d", "no_second_yet">>

order2 == <<"1-7d", "8-14d", "15-20d", "over_20d", "time_reversed", "no_second_yet">>

(* Variant: the 21-day edge belongs to the upper bucket *)
bucket3_strict(x) ==
    IF x.nan THEN "unknown"
    ELSE IF x.v < 0 THEN "time_reversed"
    ELSE IF x.v <= 7 * SecondsPerDay THEN "1-7d"
    ELSE IF x.v <= 14 * SecondsPerDay THEN "8-14d"
    ELSE IF x.v < 21 * SecondsPerDay THEN "15-21d"
    ELSE IF x.v <= 28 * SecondsPerDay THEN "22-28d"
    ELSE "over_28d"

(* Stage 3: time_reversed = 时间倒流(PLUS早于二充), not_upgraded = 尚未升级PLUS *)
bucket3(x) ==
    IF x.nan THEN "unknown"
    ELSE IF x.v < 0 THEN "time_reversed"
    ELSE IF x.v <= 7 * SecondsPerDay THEN "1-7d"
    ELSE IF x.v <= 14 * SecondsPerDay THEN "8-14d"
    ELSE IF x.v <= 21 * SecondsPerDay THEN "15-21d"
    ELSE IF x.v <= 28 * SecondsPerDay THEN "22-28d"
    ELSE "over_28d"

order3 == <<"1-7d", "8-14d", "15-21d", "22-28d", "over_28d", "time_reversed", "not_upgraded">>

---------------------------------------------------------------------------
(* What a stage function hands back: the 5-tuple it returns, or an        *)
(* exception.  A chart payload is a string: <<>> is the empty string, a    *)
(* rendered chart is the non-empty encoding of what was drawn.             *)
Returned(result, pie, bar, errors, warnings) ==
    [raised |-> FALSE, result |-> result, pie |-> pie, bar |-> bar,
     errors |-> errors, warnings |-> warnings]
Raised == [raised |-> TRUE]

EmptyStr == <<>>
EmptyReport == <<>>

(* The part of a stage function before its first chart: either it has     *)
(* returned (out), or it goes on to draw its two charts and then returns   *)
(* result.                                                                 *)
Early(d, out) == [early |-> TRUE, df |-> d, out |-> out]
Goes(d, result) == [early |-> FALSE, df |-> d, result |-> result]

(* analyze_module1 up to the bar chart *)
analyze_module1_head(d) ==
    LET miss == _missing_cols(d, <<COL_FIRST, COL_EXP>>)
        d1 == _safe_to_datetime(d, <<COL_REG, COL_EXP, COL_FIRST>>)
        HasFirst(row) == notna(row[COL_FIRST])
        base == SelectSeq(d1.rows, HasFirst)
        n_first == Len(base)
        deltas == [i \in DOMAIN base |-> delta_days(base[i], COL_FIRST, COL_EXP)]
        labels == [i \in DOMAIN base |-> bucket1(deltas[i])]
        dist == reindex(value_counts(labels), order1)
        NonNeg(x) == ~x.nan /\ x.v >= 0
        timed == SelectSeq(deltas, NonNeg)
        avg_days == IF timed = <<>> THEN [none |-> TRUE, v |-> 0]
                    ELSE [none |-> FALSE,
                          v |-> Round(SumSeq([i \in DOMAIN timed |-> timed[i].v]),
                                      Len(timed) * SecondsPerDay, 100)]
    IN IF miss # <<>>
       THEN Early(d, Returned(EmptyReport, EmptyStr, EmptyStr, <<MissingMsg(miss)>>, <<>>))
       ELSE IF n_first = 0
       THEN Early(d1, Returned([n_first_done |-> 0], EmptyStr, EmptyStr, <<>>,
                               <<"first_deposit_all_empty">>))
       ELSE Goes(d1,
                 [denominator |-> n_first,
                  avg_days |-> avg_days,
                  dist |-> dist,
                  ratio |-> ratio_of(dist, n_first),
                  sum_check |-> dist_sum(dist, order1)])

(* analyze_module2 up to the bar chart *)
analyze_module2_head(d) ==
    LET miss == _missing_cols(d, <<COL_FIRST, COL_SECOND>>)
        d1 == _safe_to_datetime(d, <<COL_FIRST, COL_SECOND>>)
        HasFirst(row) == notna(row[COL_FIRST])
        HasSecond(row) == notna(row[COL_SECOND])
        base == SelectSeq(d1.rows, HasFirst)
        base_n == Len(base)
        completed == SelectSeq(base, HasSecond)
        n_second == Len(completed)
        labels == [i \in DOMAIN completed |->
                      bucket2(delta_days(completed[i], COL_SECOND, COL_FIRST))]
        counted == value_counts(labels)
        dist_dict == [l \in DOMAIN counted \cup {"no_second_yet"} |->
                         IF l = "no_second_yet" THEN base_n - n_second ELSE counted[l]]
        dist == reindex(dist_dict, order2)
    IN IF miss # <<>>
       THEN Early(d, Returned(EmptyReport, EmptyStr, EmptyStr, <<MissingMsg(miss)>>, <<>>))
       ELSE IF base_n = 0
       THEN Early(d1, Returned([denominator |-> 0], EmptyStr, EmptyStr, <<>>,
                               <<"first_deposit_all_empty">>))
       ELSE Goes(d1,
                 [denominator |-> base_n,
                  n_second |-> n_second,
                  rate |-> Round(n_second, base_n, 10000),
                  dist |-> dist,
                  ratio |-> ratio_of(dist, base_n),
                  sum_check |-> dist_sum(dist, order2)])

(* analyze_module3 up to the bar chart *)
analyze_module3_head(d) ==
    LET miss == _missing_cols(d, <<COL_SECOND, COL_PLUS>>)
        d1 == _safe_to_datetime(d, <<COL_SECOND, COL_PLUS>>)
        HasPlus(row) == notna(row[COL_PLUS])
        HasSecond(row) == notna(row[COL_SECOND])
        NoSecond(row) == isna(row[COL_SECOND])
        plus_all == SelectSeq(d1.rows, HasPlus)
        plus_total == Len(plus_all)
        n_plus_without_second == Len(SelectSeq(plus_all, NoSecond))
        base == SelectSeq(d1.rows, HasSecond)
        base_n == Len(base)
        upgraded == SelectSeq(base, HasPlus)
        n_plus_after_second == Len(upgraded)
        labels == [i \in DOMAIN upgraded |->
                      bucket3(delta_days(upgraded[i], COL_PLUS, COL_SECOND))]
        counted == value_counts(labels)
        dist_dict == [l \in DOMAIN counted \cup {"not_upgraded"} |->
                         IF l = "not_upgraded" THEN base_n - n_plus_after_second
                         ELSE counted[l]]
        dist == reindex(dist_dict, order3)
    IN IF miss # <<>>
       THEN Early(d, Returned(EmptyReport, EmptyStr, EmptyStr, <<MissingMsg(miss)>>, <<>>))
       ELSE IF base_n = 0
       THEN Early(d1, Returned([plus_total |-> plus_total,
                                plus_without_second |-> n_plus_without_second,
                                denominator |-> 0],
                               EmptyStr, EmptyStr, <<>>, <<"second_deposit_all_empty">>))
       ELSE Goes(d1,
                 [plus_total |-> plus_total,
                  plus_without_second |-> n_plus_without_second,
                  plus_after_second |-> n_plus_after_second,
                  denominator |-> base_n,
                  rate |-> Round(n_plus_after_second, base_n, 10000),
                  dist |-> dist,
                  ratio |-> ratio_of(dist, base_n),
                  sum_check |-> dist_sum(dist, order3)])

(* The dispatch of run on the module selector, lines 345-350 *)
Head_of(m, d) ==
    CASE m = "1" -> analyze_module1_head(d)
      [] m = "2" -> analyze_module2_head(d)
      [] OTHER -> analyze_module3_head(d)

---------------------------------------------------------------------------
(* pyplot keeps the open figures in a process-wide registry; the last one  *)
(* is the current figure that plt.bar, plt.pie, plt.savefig and plt.close  *)
(* act on.                                                                 *)

(* plt.figure(): a new figure, made current.  A figure is told apart by   *)
(* the call that created it and by the chart drawn on it.                  *)
plt_figure(F, owner) == Append(F, [owner |-> owner, chart |-> ""])

(* plt.bar / plt.pie with titles and labels: draws on the current figure *)
plt_draw(F, chart) == [F EXCEPT ![Len(F)] = [@ EXCEPT !.chart = chart]]

(* plt.close(): closes the current figure *)
plt_close(F) == SubSeq(F, 1, Len(F) - 1)

(* base64 text of the PNG of a figure: never the empty string *)
b64encode(fig) == <<fig.chart, fig.owner>>

(* _fig_to_base64_png: savefig of the current figure, then close.  When    *)
(* savefig raises, plt.close() is not reached.                             *)
_fig_to_base64_png(F, savefig_raises) ==
    IF savefig_raises THEN [raised |-> TRUE, figs |-> F]
    ELSE [raised |-> FALSE, figs |-> plt_close(F), b64 |-> b64encode(F[Len(F)])]

(* _set_cn_font: addfont raises when the font file cannot be loaded, and   *)
(* the exception is swallowed; axes.unicode_minus is set in either case.   *)
_set_cn_font(rc, font_ok) ==
    IF font_ok
    THEN [family |-> "sans-serif", sans_serif |-> "Noto Sans CJK SC", unicode_minus |-> FALSE]
    ELSE [rc EXCEPT !.unicode_minus = FALSE]

DefaultRc == [family |-> "default", sans_serif |-> "DejaVu Sans", unicode_minus |-> TRUE]

(* Variant: a failure of the pie chart is swallowed and the bar chart that *)
(* was rendered is returned with an empty pie payload                      *)
stage_return_partial(result, bar_b64, pie) ==
    IF pie.raised THEN Returned(result, EmptyStr, bar_b64, <<>>, <<>>)
    ELSE Returned(result, pie.b64, bar_b64, <<>>, <<>>)

(* The end of a stage function, from the pie chart's _fig_to_base64_png:   *)
(* its exception propagates, otherwise the 5-tuple is returned             *)
stage_return(result, bar_b64, pie) ==
    IF pie.raised THEN Raised
    ELSE Returned(result, pie.b64, bar_b64, <<>>, <<>>)

(* The chart section of a stage function (bar chart, then pie chart), and  *)
(* its return.  fail names the chart whose savefig raises, if any.         *)
Charts(h, F, rc, font_ok, owner, fail) ==
    LET rc1 == _set_cn_font(rc, font_ok)
        F1 == plt_draw(plt_figure(F, owner), "bar")
        bar == _fig_to_base64_png(F1, fail = "bar")
        rc2 == _set_cn_font(rc1, font_ok)
        F2 == plt_draw(plt_figure(bar.figs, owner), "pie")
        pie == _fig_to_base64_png(F2, fail = "pie")
    IN IF bar.raised THEN [df |-> h.df, out |-> Raised, figs |-> bar.figs, rc |-> rc1]
       ELSE [df |-> h.df, out |-> stage_return(h.result, bar.b64, pie),
             figs |-> pie.figs, rc |-> rc2]

(* A stage function as a whole: h is what its part before the charts made *)
Whole(h, F, rc, font_ok, owner, fail) ==
    IF h.early THEN [df |-> h.df, out |-> h.out, figs |-> F, rc |-> rc]
    ELSE Charts(h, F, rc, font_ok, owner, fail)

(* Variant: a warning also clears the success flag *)
run_response_strict(m, o) ==
    IF o.raised
    THEN [ok |-> FALSE, errors |-> <<ErrMsg("analysis_failed")>>, warnings |-> <<>>]
    ELSE [ok |-> (Len(o.errors) = 0 /\ Len(o.warnings) = 0),
          module |-> m,
          errors |-> o.errors,
          warnings |-> o.warnings,
          result |-> o.result,
          pie_png_base64 |-> o.pie,
          bar_png_base64 |-> o.bar]

(* The response run builds from what the stage function handed back,      *)
(* lines 351-362                                                           *)
run_response(m, o) ==
    IF o.raised
    THEN [ok |-> FALSE, errors |-> <<ErrMsg("analysis_failed")>>, warnings |-> <<>>]
    ELSE [ok |-> (Len(o.errors) = 0),
          module |-> m,
          errors |-> o.errors,
          warnings |-> o.warnings,
          result |-> o.result,
          pie_png_base64 |-> o.pie,
          bar_png_base64 |-> o.bar]

---------------------------------------------------------------------------
(* Input tables.  A cell of a column is empty, unparseable text, the       *)
(* column's parseable text or the column's timestamp; the two times of a   *)
(* column are chosen so that the deltas of each stage fall into several    *)
(* buckets, edges included (stage 1: -1, 0.5, 8.5 and 10 days; stage 2:    *)
(* -2.5, 7, 15 and 24.5 days; stage 3: 4.5, 15, 22 and 32.5 days).         *)
StrTime(c) ==
    CASE c = COL_REG -> 0
      [] c = COL_EXP -> 3 * HalfDay
      [] c = COL_FIRST -> 1 * HalfDay
      [] c = COL_SECOND -> 15 * HalfDay
      [] OTHER -> 59 * HalfDay

TsTime(c) ==
    CASE c = COL_REG -> 0
      [] c = COL_EXP -> 0
      [] c = COL_FIRST -> 20 * HalfDay
      [] c = COL_SECOND -> 50 * HalfDay
      [] OTHER -> 80 * HalfDay

Kinds == {"nan", "bad", "str", "ts"}

Cell(c, kind) ==
    CASE kind = "nan" -> NaN
      [] kind = "bad" -> Bad
      [] kind = "str" -> Str(StrTime(c))
      [] OTHER -> Ts(TsTime(c))

Required(m) ==
    CASE m = "1" -> {COL_FIRST, COL_EXP}
      [] m = "2" -> {COL_FIRST, COL_SECOND}
      [] OTHER -> {COL_SECOND, COL_PLUS}

(* Any of the required columns may be absent; the other columns are all    *)
(* present or all absent.                                                  *)
ColSets(m) == {req \cup ext : req \in SUBSET Required(m), ext \in {{}, Cols \ Required(m)}}

(* A stage reads only its own columns: the cells of the other columns are  *)
(* held at the column's text value.                                        *)
RowsOver(m, cs, kinds) ==
    {[c \in cs |-> IF c \in Required(m) THEN Cell(c, kind[c]) ELSE Cell(c, "str")] :
        kind \in [Required(m) \cap cs -> kinds]}

Tables(m, kinds, maxRows) ==
    UNION {{[columns |-> cs, rows |-> rows] :
               rows \in UNION {[1..n -> RowsOver(m, cs, kinds)] : n \in 0..maxRows}} :
           cs \in ColSets(m)}

Modules == {"1", "2", "3"}
Fails == {"none", "bar", "pie"}

NoTable == [columns |-> {}, rows |-> <<>>]
NoBucket == [stage |-> "", x |-> NaNDelta]

NoInput == [kinds |-> {}, maxRows |-> 0]

(* Tables of few rows over every kind of cell, and tables of more rows     *)
(* whose cells are timestamps or empty.                                    *)
Inputs == {[kinds |-> Kinds, maxRows |-> MaxRows],
           [kinds |-> {"nan", "ts"}, maxRows |-> MaxTimedRows]}

StageIdle == df = NoTable /\ df0 = NoTable /\ module = "" /\ calls = <<>> /\ input = NoInput
BucketIdle == bx = NoBucket /\ blabel = ""
NoResponse == [req |-> 0]
RunIdle == reqs = <<>> /\ running = 0 /\ response = NoResponse

---------------------------------------------------------------------------
(* SpecStage: a table is read row by row, then the dispatch of run (the    *)
(* selected stage function and the response built from what it hands      *)
(* back) is applied twice in succession to that same table object.         *)
InitStage ==
    /\ module \in Modules
    /\ input \in Inputs
    /\ \E cs \in ColSets(module) : df = [columns |-> cs, rows |-> <<>>]
    /\ df0 = df
    /\ calls = <<>>
    /\ figs = <<>>
    /\ rcParams = DefaultRc
    /\ fontFile = TRUE
    /\ BucketIdle
    /\ RunIdle

LoadRow ==
    /\ calls = <<>>
    /\ Len(df.rows) < input.maxRows
    /\ \E row \in RowsOver(module, df.columns, input.kinds) :
          df' = [df EXCEPT !.rows = Append(@, row)]
    /\ df0' = df'
    /\ UNCHANGED <<module, input, calls, figs, rcParams, bx, blabel, reqs, running, response, fontFile>>

Call(k) ==
    /\ Len(calls) = k - 1
    /\ LET h == Head_of(module, df)
       IN \E fail \in Fails :
          LET c == Whole(h, figs, rcParams, fontFile, k, fail)
          IN /\ df' = c.df
             /\ calls' = Append(calls, [out |-> c.out, resp |-> run_response(module, c.out)])
             /\ figs' = c.figs
             /\ rcParams' = c.rc
    /\ UNCHANGED <<module, input, df0, bx, blabel, reqs, running, response, fontFile>>

FirstCall == Call(1)

SecondCall == Call(2)

NextStage == LoadRow \/ FirstCall \/ SecondCall

SpecStage == InitStage /\ [][NextStage]_vars

---------------------------------------------------------------------------
(* SpecBucket: the bucket function of a stage applied to one delta.        *)
BucketDeltas == {NaNDelta} \cup {Delta(k * HalfDay) : k \in -2 .. 2 * MaxBucketDay}

bucket(stage, x) ==
    CASE stage = "1" -> bucket1(x)
      [] stage = "2" -> bucket2(x)
      [] OTHER -> bucket3(x)

InitBucket ==
    /\ bx \in [stage : Modules, x : BucketDeltas]
    /\ blabel = ""
    /\ StageIdle
    /\ RunIdle
    /\ figs = <<>>
    /\ rcParams = DefaultRc
    /\ fontFile = TRUE

ApplyBucket ==
    /\ blabel = ""
    /\ blabel' = bucket(bx.stage, bx.x)
    /\ UNCHANGED <<bx, df, module, calls, df0, input, reqs, figs, rcParams, running, response, fontFile>>

NextBucket == ApplyBucket

SpecBucket == InitBucket /\ [][NextBucket]_vars

---------------------------------------------------------------------------
(* Spec: MaxRequests requests to POST /run on one event loop.  The         *)
(* coroutine of a request runs from one suspension point to the next; its  *)
(* only suspension point is the await of file.read() (line 339).  The      *)
(* steps of the chart section are taken one by one by the request that     *)
(* holds the event loop.                                                   *)
Requests == 1..MaxRequests

Req(pc, m, result, bar) == [pc |-> pc, module |-> m, result |-> result, bar |-> bar]

NewReq == Req("new", "", EmptyReport, EmptyStr)
DoneReq == Req("done", "", EmptyReport, EmptyStr)

(* The response of a request that ended before its stage function ran,     *)
(* lines 333, 336 and 342                                                  *)
error_response(kind) == [ok |-> FALSE, errors |-> <<ErrMsg(kind)>>, warnings |-> <<>>]

(* A response sent, with what it answers: the request, its module          *)
(* selector, and what the stage function handed back (stage is             *)
(* "not_called", "returned" or "raised"; bar is the bar payload that was   *)
(* rendered before the stage function ended).                              *)
Sent(r, m, stage, ret, bar, body) ==
    [req |-> r, module |-> m, stage |-> stage, ret |-> ret, bar |-> bar, body |-> body]

Init ==
    /\ reqs = [r \in Requests |-> NewReq]
    /\ figs = <<>>
    /\ rcParams = DefaultRc
    /\ running = 0
    /\ response = NoResponse
    /\ fontFile \in BOOLEAN
    /\ StageIdle
    /\ BucketIdle

(* The tables a request uploads *)
ReqTables(m) == Tables(m, {"nan", "ts"}, MaxReqRows)

(* run, lines 332-339: the selector and the file name are checked, then    *)
(* the coroutine awaits the upload.  Requests are numbered in the order    *)
(* of their arrival.                                                       *)
Receive(r) ==
    /\ running = 0
    /\ reqs[r].pc = "new"
    /\ r > 1 => reqs[r - 1].pc # "new"
    /\ \E m \in Modules \cup {"4"}, ext_ok \in BOOLEAN :
          IF m \notin {"1", "2", "3"}
          THEN /\ reqs' = [reqs EXCEPT ![r] = DoneReq]
               /\ response' = Sent(r, m, "not_called", Raised, EmptyStr,
                                   error_response("bad_module"))
          ELSE IF ~ext_ok
          THEN /\ reqs' = [reqs EXCEPT ![r] = DoneReq]
               /\ response' = Sent(r, m, "not_called", Raised, EmptyStr,
                                   error_response("bad_extension"))
          ELSE /\ reqs' = [reqs EXCEPT ![r] = Req("reading", m, EmptyReport, EmptyStr)]
               /\ response' = NoResponse
    /\ UNCHANGED <<figs, rcParams, running, fontFile, df, module, calls, df0, input, bx, blabel>>

(* run, lines 339-342: the read or the parse of the upload fails *)
ReadFails(r) ==
    /\ running = 0
    /\ reqs[r].pc = "reading"
    /\ reqs' = [reqs EXCEPT ![r] = DoneReq]
    /\ response' = Sent(r, reqs[r].module, "not_called", Raised, EmptyStr,
                        error_response("excel_read_failed"))
    /\ UNCHANGED <<figs, rcParams, running, fontFile, df, module, calls, df0, input, bx, blabel>>

(* run, lines 339-350, and the stage function up to its bar chart's        *)
(* _fig_to_base64_png: the table is parsed and the stage function returns  *)
(* early or draws its bar chart                                            *)
Resume(r) ==
    /\ running = 0
    /\ reqs[r].pc = "reading"
    /\ \E table \in ReqTables(reqs[r].module) :
          LET m == reqs[r].module
              h == Head_of(m, table)
          IN IF h.early
             THEN /\ reqs' = [reqs EXCEPT ![r] = DoneReq]
                  /\ response' = Sent(r, m, "returned", h.out, EmptyStr,
                                      run_response(m, h.out))
                  /\ UNCHANGED <<figs, rcParams, running>>
             ELSE /\ reqs' = [reqs EXCEPT ![r] = Req("bar_drawn", m, h.result, EmptyStr)]
                  /\ rcParams' = _set_cn_font(rcParams, fontFile)
                  /\ figs' = plt_draw(plt_figure(figs, r), "bar")
                  /\ running' = r
                  /\ response' = NoResponse
    /\ UNCHANGED <<fontFile, df, module, calls, df0, input, bx, blabel>>

(* An exception leaves the stage function and run answers it, lines 351-352 *)
StageRaises(r, F) ==
    /\ reqs' = [reqs EXCEPT ![r] = DoneReq]
    /\ response' = Sent(r, reqs[r].module, "raised", Raised, reqs[r].bar,
                        run_response(reqs[r].module, Raised))
    /\ figs' = F
    /\ running' = 0

(* The bar chart's _fig_to_base64_png *)
BarSave(r) ==
    /\ running = r
    /\ reqs[r].pc = "bar_drawn"
    /\ \E savefig_raises \in BOOLEAN :
          LET bar == _fig_to_base64_png(figs, savefig_raises)
          IN IF bar.raised
             THEN StageRaises(r, bar.figs)
             ELSE /\ reqs' = [reqs EXCEPT ![r] = [@ EXCEPT !.pc = "bar_saved", !.bar = bar.b64]]
                  /\ figs' = bar.figs
                  /\ response' = NoResponse
                  /\ UNCHANGED running
    /\ UNCHANGED <<rcParams, fontFile, df, module, calls, df0, input, bx, blabel>>

(* The pie chart is drawn on a new figure *)
PieDraw(r) ==
    /\ running = r
    /\ reqs[r].pc = "bar_saved"
    /\ rcParams' = _set_cn_font(rcParams, fontFile)
    /\ figs' = plt_draw(plt_figure(figs, r), "pie")
    /\ reqs' = [reqs EXCEPT ![r] = [@ EXCEPT !.pc = "pie_drawn"]]
    /\ response' = NoResponse
    /\ UNCHANGED <<running, fontFile, df, module, calls, df0, input, bx, blabel>>

(* The pie chart's _fig_to_base64_png, the return of the stage function    *)
(* and the response of run                                                 *)
PieSave(r) ==
    /\ running = r
    /\ reqs[r].pc = "pie_drawn"
    /\ \E savefig_raises \in BOOLEAN :
          LET pie == _fig_to_base64_png(figs, savefig_raises)
              ret == stage_return(reqs[r].result, reqs[r].bar, pie)
          IN IF ret.raised
             THEN StageRaises(r, pie.figs)
             ELSE /\ reqs' = [reqs EXCEPT ![r] = DoneReq]
                  /\ response' = Sent(r, reqs[r].module, "returned", ret, reqs[r].bar,
                                      run_response(reqs[r].module, ret))
                  /\ figs' = pie.figs
                  /\ running' = 0
    /\ UNCHANGED <<rcParams, fontFile, df, module, calls, df0, input, bx, blabel>>

Next ==
    \E r \in Requests :
        \/ Receive(r)
        \/ ReadFails(r)
        \/ Resume(r)
        \/ BarSave(r)
        \/ PieDraw(r)
        \/ PieSave(r)

Spec == Init /\ [][Next]_vars

---------------------------------------------------------------------------
(* Properties of SpecStage.  They are stated over the table as it was read *)
(* (df0): a timestamp is present in a cell when the cell is a timestamp or *)
(* a text that parses as one.                                              *)
Present(cell) == cell.k \in {"str", "ts"}

Anchor(m) == IF m = "3" THEN COL_SECOND ELSE COL_FIRST

Order(m) == IF m = "1" THEN order1 ELSE IF m = "2" THEN order2 ELSE order3

HasRequired == Required(module) \subseteq df0.columns

Population == {i \in DOMAIN df0.rows : Present(df0.rows[i][Anchor(module)])}

Has(result, key) == key \in DOMAIN result

(* C1: for each stage and every table with the required columns and a     *)
(* non-empty population, the sum-check of the returned report equals the   *)
(* sum of the counts of the stage's fixed bucket list and equals the       *)
(* denominator, the number of rows whose anchor timestamp is present: no   *)
(* population row is counted under a label outside the list.               *)
C1_SumCheck ==
    \A k \in DOMAIN calls :
        LET o == calls[k].out
        IN (HasRequired /\ Population # {} /\ ~o.raised) =>
              /\ Has(o.result, "sum_check") /\ Has(o.result, "dist")
              /\ Has(o.result, "denominator")
              /\ DOMAIN o.result.dist = Range(Order(module))
              /\ o.result.sum_check = SumSeq(Values(o.result.dist, Order(module)))
              /\ o.result.sum_check = Cardinality(Population)
              /\ o.result.denominator = Cardinality(Population)

C1_Witness ==
    /\ module = "2"
    /\ \E k \in DOMAIN calls :
          LET o == calls[k].out
          IN /\ ~o.raised /\ Has(o.result, "sum_check")
             /\ o.result.sum_check = 2
             /\ o.result.dist["time_reversed"] = 1
             /\ o.result.dist["no_second_yet"] = 1

(* C3: when the table lacks required columns of the selected stage, the    *)
(* stage returns one error naming exactly the missing required columns, an *)
(* empty report and two empty chart payloads, the response's success flag  *)
(* is false, and the table is left as it was (the normalizer did not run). *)
C3_MissingColumns ==
    \A k \in DOMAIN calls :
        LET o == calls[k].out
        IN ~HasRequired =>
              /\ ~o.raised
              /\ Len(o.errors) = 1
              /\ o.errors[1].msg = "missing_cols"
              /\ Range(o.errors[1].names) = Required(module) \ df0.columns
              /\ Len(o.errors[1].names) = Cardinality(Required(module) \ df0.columns)
              /\ o.result = EmptyReport
              /\ o.pie = EmptyStr /\ o.bar = EmptyStr
              /\ o.warnings = <<>>
              /\ calls[k].resp.ok = FALSE
              /\ df = df0

C3_Witness ==
    /\ module = "1" /\ calls # <<>>
    /\ COL_FIRST \in df0.columns /\ COL_EXP \notin df0.columns
    /\ \E i \in DOMAIN df0.rows : df0.rows[i][COL_FIRST].k = "str"
    /\ calls[1].out.errors[1].names = <<COL_EXP>>

(* C4: when the required columns exist and the anchor timestamp is missing *)
(* on every row (empty table, empty cells, unparseable cells), the report  *)
(* has denominator 0, there is a warning and no error, both chart payloads *)
(* are the empty string and the success flag is true.                      *)
DenominatorKey(m) == IF m = "1" THEN "n_first_done" ELSE "denominator"

C4_EmptyPopulation ==
    \A k \in DOMAIN calls :
        LET o == calls[k].out
        IN (HasRequired /\ Population = {}) =>
              /\ ~o.raised
              /\ Has(o.result, DenominatorKey(module))
              /\ o.result[DenominatorKey(module)] = 0
              /\ o.warnings # <<>>
              /\ o.errors = <<>>
              /\ o.pie = EmptyStr /\ o.bar = EmptyStr
              /\ calls[k].resp.ok = TRUE
              /\ calls[k].resp.pie_png_base64 = EmptyStr
              /\ calls[k].resp.bar_png_base64 = EmptyStr

C4_Witness ==
    /\ module = "3" /\ calls # <<>> /\ HasRequired /\ Population = {}
    /\ \E i \in DOMAIN df0.rows : df0.rows[i][COL_SECOND].k = "bad"
    /\ \E i \in DOMAIN df0.rows : df0.rows[i][COL_SECOND].k = "nan"
    /\ ~calls[1].out.raised
    /\ calls[1].out.result.plus_total = 1

(* C7: two successive calls of a stage function on the same table object   *)
(* that both return hand back identical reports, error lists and warning   *)
(* lists, although the first call rewrote the timestamp columns in place.  *)
C7_Idempotent ==
    (Len(calls) = 2 /\ ~calls[1].out.raised /\ ~calls[2].out.raised) =>
        /\ calls[2].out.result = calls[1].out.result
        /\ calls[2].out.errors = calls[1].out.errors
        /\ calls[2].out.warnings = calls[1].out.warnings

C7_Witness ==
    /\ Len(calls) = 2 /\ ~calls[1].out.raised /\ ~calls[2].out.raised
    /\ df # df0
    /\ Has(calls[2].out.result, "sum_check")
    /\ \E i \in DOMAIN df0.rows : df0.rows[i][Anchor(module)].k = "str"

(* C8 as claimed: in stage 3 the full-table upgrade total and the direct   *)
(* upgrade count are taken over all rows and returned also when the        *)
(* denominator is 0; otherwise total = direct + upgrades within the        *)
(* denominator, and the upgrade rate equals that count divided by the      *)
(* denominator.                                                            *)
PlusRows == {i \in DOMAIN df0.rows : Present(df0.rows[i][COL_PLUS])}
DirectRows == {i \in PlusRows : ~Present(df0.rows[i][COL_SECOND])}

C8_Counts(o) ==
    /\ Has(o.result, "plus_total") /\ Has(o.result, "plus_without_second")
    /\ Has(o.result, "denominator")
    /\ o.result.plus_total = Cardinality(PlusRows)
    /\ o.result.plus_without_second = Cardinality(DirectRows)
    /\ o.result.denominator = Cardinality(Population)
    /\ Population # {} =>
          /\ Has(o.result, "plus_after_second") /\ Has(o.result, "rate")
          /\ o.result.plus_after_second = Cardinality(PlusRows \cap Population)
          /\ o.result.plus_total =
                o.result.plus_without_second + o.result.plus_after_second

C8_ExactRate ==
    \A k \in DOMAIN calls :
        LET o == calls[k].out
        IN (module = "3" /\ HasRequired /\ ~o.raised) =>
              /\ C8_Counts(o)
              /\ Population # {} =>
                    o.result.rate * o.result.denominator
                        = 10000 * o.result.plus_after_second

(* C8 as amended: the upgrade rate is that count divided by the            *)
(* denominator, rounded to 4 decimal places (rate is in ten-thousandths).  *)
C8_RoundedRate ==
    \A k \in DOMAIN calls :
        LET o == calls[k].out
            err == o.result.rate * o.result.denominator
                       - 10000 * o.result.plus_after_second
        IN (module = "3" /\ HasRequired /\ ~o.raised) =>
              /\ C8_Counts(o)
              /\ Population # {} => (2 * err <= o.result.denominator
                                     /\ -2 * err <= o.result.denominator)

C8_Witness ==
    /\ module = "3" /\ calls # <<>> /\ HasRequired /\ ~calls[1].out.raised
    /\ Cardinality(Population) = 3
    /\ Cardinality(DirectRows) = 1
    /\ Cardinality(PlusRows) = 3
    /\ calls[1].out.result.rate = 6667

---------------------------------------------------------------------------
(* Properties of SpecBucket.  The bucket edges of each stage, in days,     *)
(* with the two buckets that meet there.                                   *)
Edge(stage, day, lower, upper) ==
    [stage |-> stage, day |-> day, lower |-> lower, upper |-> upper]

Edges ==
    {Edge("1", 1, "same_day", "1-3d"), Edge("1", 3, "1-3d", "4-6d"),
     Edge("1", 6, "4-6d", "7-10d"), Edge("1", 10, "7-10d", "over_10d"),
     Edge("2", 7, "1-7d", "8-14d"), Edge("2", 14, "8-14d", "15-20d"),
     Edge("2", 20, "15-20d", "over_20d"),
     Edge("3", 7, "1-7d", "8-14d"), Edge("3", 14, "8-14d", "15-21d"),
     Edge("3", 21, "15-21d", "22-28d"), Edge("3", 28, "22-28d", "over_28d")}

AtEdge(e) == bx.stage = e.stage /\ bx.x = Delta(e.day * SecondsPerDay)

(* C2 as claimed: a delta exactly at a bucket edge is classified into the  *)
(* lower of the two buckets that meet there, at every edge of every stage. *)
C2_LowerAtEveryEdge ==
    blabel # "" => \A e \in Edges : AtEdge(e) => blabel = e.lower

(* C2 as amended: a delta exactly at a bucket edge is classified into the  *)
(* lower bucket at every edge except the 1-day edge of stage 1, where it   *)
(* is classified into the upper bucket "1-3 days" (same-day is delta < 1). *)
C2_LowerExceptSameDay ==
    blabel # "" =>
        \A e \in Edges :
            AtEdge(e) => blabel = (IF e.stage = "1" /\ e.day = 1 THEN e.upper ELSE e.lower)

C2_Witness ==
    /\ blabel = "15-21d"
    /\ bx.stage = "3"
    /\ bx.x = Delta(21 * SecondsPerDay)

---------------------------------------------------------------------------
(* Properties of Spec. *)
NonEmptyField(body, key) == key \in DOMAIN body /\ Len(body[key]) > 0

InAnalysis(r) == reqs[r].pc \in {"bar_drawn", "bar_saved", "pie_drawn"}

(* C5: in every response of run the success flag is false if and only if   *)
(* the error list is non-empty; a warning never makes it false.            *)
C5_OkIffNoErrors ==
    response.req # 0 =>
        ((response.body.ok = FALSE) <=> (Len(response.body.errors) > 0))

C5_Witness ==
    /\ response.req # 0
    /\ response.stage = "returned"
    /\ Len(response.body.warnings) > 0
    /\ response.body.errors = <<>>
    /\ response.body.ok = TRUE

(* C6: what a stage function hands back and what run answers carry zero    *)
(* chart payloads or two: the bar payload is a non-empty string exactly    *)
(* when the pie payload is, also when the bar chart was rendered and the   *)
(* pie chart's rendering then failed.                                      *)
C6_ZeroOrTwoCharts ==
    response.req # 0 =>
        /\ response.stage = "returned" =>
              ((Len(response.ret.bar) > 0) <=> (Len(response.ret.pie) > 0))
        /\ NonEmptyField(response.body, "bar_png_base64")
              <=> NonEmptyField(response.body, "pie_png_base64")

C6_Witness ==
    /\ response.req # 0
    /\ response.stage = "raised"
    /\ Len(response.bar) > 0
    /\ ~NonEmptyField(response.body, "bar_png_base64")
    /\ ~NonEmptyField(response.body, "pie_png_base64")

(* C9: within a stage run the bar chart's figure is saved and closed       *)
(* before the pie chart's figure is created, at most one figure is open at *)
(* any moment, and none is open once the stage function has returned or    *)
(* rendering has raised.                                                   *)
C9_FiguresReleased ==
    /\ Len(figs) <= 1
    /\ running = 0 => figs = <<>>
    /\ \A r \in Requests :
          /\ reqs[r].pc = "bar_saved" => figs = <<>>
          /\ reqs[r].pc = "pie_drawn" => figs = <<[owner |-> r, chart |-> "pie"]>>

(* C10: the analysis and rendering of one request never interleave with    *)
(* those of another; the charts of a response are rendered from the        *)
(* request's own figures and the open figures are never shared between     *)
(* requests; the only state carried from one request to the next is the    *)
(* font configuration, which reapplying leaves unchanged.                  *)
C10_RequestsIsolated ==
    /\ \A r \in Requests : InAnalysis(r) => running = r
    /\ \A i \in DOMAIN figs : running # 0 /\ figs[i].owner = running
    /\ (response.req # 0 /\ response.stage = "returned" /\ Len(response.ret.bar) > 0) =>
          /\ response.ret.bar = <<"bar", response.req>>
          /\ response.ret.pie = <<"pie", response.req>>
    /\ (\E r \in Requests : InAnalysis(r)) =>
          _set_cn_font(rcParams, fontFile) = rcParams

====
